---- MODULE Spec2Model ----
(***************************************************************************)
(* FetchFS: a read-only file system whose file contents and sizes are      *)
(* fetched lazily over HTTP (GET for content, HEAD for size) and cached in *)
(* the nodes of a file index built from a listing.                         *)
(*                                                                         *)
(* The repository holds two revisions of the backend: src/src/Fetch.ts     *)
(* (variant "browserfs") and src/unnamed/part_000 (variant "zenfs").  The  *)
(* variant is fixed at construction; every operation is modelled for both. *)
(***************************************************************************)
EXTENDS Integers, Sequences, FiniteSets, TLC

\* ------------------------------------------------------------------ bounds
MaxLen == 1
MaxOps == 4

\* --------------------------------------------------------------- constants
\* parseInt's "not a number" result, kept apart from every integer a size
\* can take in the model.
NaN == -1000
\* The size of a file whose size is not known yet.
UnknownSize == -1

\* An optional value: <<>> is null/undefined, <<x>> is the value x.
None == <<>>
Some(x) == <<x>>

\* File contents: the empty contents and contents of MaxLen bytes.
Bytes == {0}
Bodies == {<<>>} \cup [1..MaxLen -> Bytes]

\* ------------------------------------------------------------ the listing
\* The listing {"a.txt": null, "dir": {"b.txt": null}}.
Files == {"/a.txt", "/dir/b.txt"}
Dirs == {"/dir"}
Paths == Files \cup Dirs \cup {"/nope"}

\* The node a path resolves to in an index: "file", "dir" or "absent".
\* idx = "listing" is the index built from the listing, idx = "empty" the
\* index of the empty listing {}.
getInode(idx, p) ==
    IF idx = "listing" /\ p \in Files THEN "file"
    ELSE IF idx = "listing" /\ p \in Dirs THEN "dir"
    ELSE "absent"

\* The text of a path, cut into separators and names.
PathText(p) ==
    CASE p = "/a.txt" -> <<"/", "a.txt">>
      [] p = "/dir" -> <<"/", "dir">>
      [] p = "/dir/b.txt" -> <<"/", "dir", "/", "b.txt">>
      [] OTHER -> <<"/", "nope">>

\* ------------------------------------------------------------------- URLs
\* Values of the baseUrl option, cut the same way; the default is ''.
DefaultBaseUrl == <<>>
BaseUrls ==
    {DefaultBaseUrl, <<"/">>, <<"x">>, <<"x", "/">>, <<"x", "/", "y">>,
     <<"x", "/", "y", "/">>}

\* this.prefixUrl as the constructor stores it.  browserfs appends the
\* separator to a non-empty baseUrl that lacks it; zenfs tests
\* baseUrl.at(-1), which is undefined for ''.
prefixOf(v, baseUrl) ==
    IF v = "browserfs" THEN
        (IF Len(baseUrl) > 0 /\ baseUrl[Len(baseUrl)] # "/"
         THEN baseUrl \o <<"/">> ELSE baseUrl)
    ELSE
        (IF baseUrl = <<>> \/ baseUrl[Len(baseUrl)] # "/"
         THEN baseUrl \o <<"/">> ELSE baseUrl)

\* _getRemotePath(filePath): one leading separator is cut off.
getRemotePath(prefix, filePath) ==
    prefix \o (IF filePath # <<>> /\ Head(filePath) = "/"
               THEN Tail(filePath) ELSE filePath)

\* ------------------------------------------------------------- transport
GetResponses ==
    {[thrown |-> TRUE, ok |-> FALSE, body |-> <<>>],
     [thrown |-> FALSE, ok |-> FALSE, body |-> <<>>]}
    \cup {[thrown |-> FALSE, ok |-> TRUE, body |-> b] : b \in Bodies}

DigitChars == <<"0", "1", "2", "3", "4", "5", "6", "7", "8", "9">>
\* Values of the Content-Length header: empty, unparsable, or a number.
HeaderValues ==
    {<<>>, <<"x">>} \cup {<<DigitChars[n + 1]>> : n \in {0, MaxLen}}
HeadResponses ==
    {[thrown |-> TRUE, ok |-> FALSE, header |-> None],
     [thrown |-> FALSE, ok |-> FALSE, header |-> None]}
    \cup {[thrown |-> FALSE, ok |-> TRUE, header |-> h] :
            h \in {None} \cup {Some(v) : v \in HeaderValues}}

IndexResponses ==
    [thrown : {FALSE}, ok : BOOLEAN, json : {"listing", "invalid"}]
    \cup {[thrown |-> TRUE, ok |-> FALSE, json |-> "invalid"]}

\* parseInt(s, 10) on a string given as a sequence of characters.
IsDigit(c) == \E i \in 1..10 : DigitChars[i] = c
DigitVal(c) == (CHOOSE i \in 1..10 : DigitChars[i] = c) - 1
RECURSIVE DigitsPrefix(_)
DigitsPrefix(s) ==
    IF s = <<>> \/ ~IsDigit(Head(s)) THEN <<>>
    ELSE <<Head(s)>> \o DigitsPrefix(Tail(s))
RECURSIVE DigitsValue(_, _)
DigitsValue(acc, s) ==
    IF s = <<>> THEN acc
    ELSE DigitsValue(acc * 10 + DigitVal(Head(s)), Tail(s))
parseInt(s) ==
    LET neg == s # <<>> /\ Head(s) = "-"
        rest == IF neg THEN Tail(s) ELSE s
        ds == DigitsPrefix(rest)
    IN  IF ds = <<>> THEN NaN
        ELSE IF neg THEN 0 - DigitsValue(0, ds)
        ELSE DigitsValue(0, ds)

\* A variant of the comparison that takes NaN for a negative number.
IsNegative_OrNaN(x) == x = NaN \/ x < 0

\* x < 0 as JavaScript evaluates it: false when x is NaN.
IsNegative(x) == x # NaN /\ x < 0

\* A variant of fetchFile that does not look at the response status.
fetchFileErr_AnyStatus(resp) ==
    IF resp.thrown THEN "EIO"
    ELSE "ok"

\* fetchFile(url, 'buffer'): the error it throws, or "ok".
fetchFileErr(resp) ==
    IF resp.thrown THEN "EIO"
    ELSE IF ~resp.ok THEN "EIO"
    ELSE "ok"

\* fetchSize(url): the error it throws, or "ok", and the size it returns.
fetchSizeErr(resp) ==
    IF resp.thrown THEN "EIO"
    ELSE IF ~resp.ok THEN "EIO"
    ELSE "ok"
fetchSize(resp) ==
    LET h == resp.header
        text == IF h = None \/ h = Some(<<>>) THEN <<"-", "1">> ELSE h[1]
    IN  parseInt(text)

\* ------------------------------------------------------------------ state
VARIABLES
    variant,    \* "browserfs" (src/src/Fetch.ts) or "zenfs" (part_000)
    initState,  \* the _ready/_init promise: "pending", "resolved", "rejected"
    initErr,    \* the error the promise rejected with, "ok" otherwise
    index,      \* this._index: "undefined", "empty" or "listing"
    prefixUrl,  \* this.prefixUrl
    size,       \* stats.size of each file node
    fileData,   \* stats.fileData of each file node (None is null)
    pending,    \* requests in flight, each with the call suspended on it:
                \* <<method, path>> -> count
    ops,        \* operations invoked so far
    last,       \* the latest step and what it returned to its caller
    fetched,    \* bodies of the GETs that succeeded since the last empty()
    lastWrite,  \* per file: who wrote the cache last since the last empty(),
                \* and the bytes written (None when nothing did)
    emptied,    \* per file: "clean" from an empty() that found the file
                \* cached, "dirty" once a GET completion or a preloadFile
                \* wrote the cache again, until the next openFile on the
                \* file, which makes it "reopened" (from clean) or "no"
    retry       \* the latest steps, when they are a request that failed,
                \* the call that issued it again, and its completion

vars == <<variant, initState, initErr, index, prefixUrl, size, fileData,
          pending, ops, last, fetched, lastWrite, emptied, retry>>

nodeVars == <<size, fileData>>
netVars == <<pending>>
initVars == <<variant, initState, initErr, index, prefixUrl>>
histVars == <<fetched, lastWrite, emptied, retry>>

Requests == {"GET", "HEAD"} \X Files

\* History: a request that failed, was issued again by the next step and
\* completed in the step after that.
Retry(req, stage) == Some([req |-> req, stage |-> stage])
failedNow(req) == Retry(req, "failed")
issuedNow(r, req) ==
    IF r = Retry(req, "failed") THEN Retry(req, "retried") ELSE None
completedNow(r, req) ==
    IF r = Retry(req, "retried") THEN Retry(req, "completed") ELSE None

\* What a step hands back to its caller.
\*   act   the step; op the operation whose caller gets the result
\*   err   "ok", "pending" (suspended on a request) or the error thrown
\*   data  the bytes of the returned handle/buffer; size the returned size
\*   body  the bytes that came in: a GET's response body, preloadFile's buffer
\*   net   the request the step issued: "GET", "HEAD" or "none"
\*   gate  the state of the initialization promise when the step read the
\*         index, "-" when it did not read it
\*   url   the URL the request of the step was sent to
Result(act, op, p, flag, err, data, sz, body, net, gate) ==
    [act |-> act, op |-> op, path |-> p, flag |-> flag, err |-> err,
     data |-> data, size |-> sz, body |-> body, net |-> net, gate |-> gate,
     url |-> None]

\* The step sent its request to _getRemotePath(p).
Sent(r, prefix, p) ==
    [r EXCEPT !.url = Some(getRemotePath(prefix, PathText(p)))]

Failure(act, p, flag, err, gate) ==
    Result(act, act, p, flag, err, None, None, None, "none", gate)

\* ------------------------------------------------------------ construction
\* new FetchFS({index, baseUrl}): an inline listing is indexed before the
\* constructor returns; a URL leaves the listing fetch in flight.
\* A variant of the constructor that builds the index of an inline listing
\* later, like the index of a listing that is fetched.
constructIndex_Deferred(v, inline) ==
    IF v = "browserfs" THEN "undefined" ELSE "empty"

\* this._index when the constructor returns: built from an inline listing,
\* otherwise not assigned yet (browserfs) or the index of super({}) (zenfs).
constructIndex(v, inline) ==
    IF inline THEN "listing"
    ELSE IF v = "browserfs" THEN "undefined"
    ELSE "empty"

Construct(baseUrls) ==
    /\ variant \in {"browserfs", "zenfs"}
    /\ \E inline \in BOOLEAN :
          /\ initState = (IF inline THEN "resolved" ELSE "pending")
          /\ index = constructIndex(variant, inline)
    /\ \E baseUrl \in baseUrls : prefixUrl = prefixOf(variant, baseUrl)
    /\ initErr = "ok"
    /\ size = [f \in Files |-> UnknownSize]
    /\ fileData = [f \in Files |-> None]
    /\ pending = [r \in Requests |-> 0]
    /\ ops = 0
    /\ last = Failure("new", "/", "-", "ok", "-")
    /\ fetched = [f \in Files |-> {}]
    /\ lastWrite = [f \in Files |-> None]
    /\ emptied = [f \in Files |-> "no"]
    /\ retry = None

\* Construction with the default baseUrl.
Init == Construct({DefaultBaseUrl})

\* loadIndex (browserfs): the listing fetch goes through fetchFile(url, 'json').
loadIndexErr(resp) ==
    IF resp.thrown THEN "EIO"
    ELSE IF ~resp.ok THEN "EIO"
    ELSE IF resp.json = "invalid" THEN "EIO"
    ELSE "ok"

\* _initialize (zenfs): fetch and response.json() inside one try block.
initializeErr(resp) ==
    IF resp.thrown THEN "EINVAL"
    ELSE IF resp.json = "invalid" THEN "EINVAL"
    ELSE "ok"

\* The listing fetch issued by the constructor completes.
LoadDone(resp) ==
    /\ initState = "pending"
    /\ LET err == IF variant = "browserfs" THEN loadIndexErr(resp)
                  ELSE initializeErr(resp)
       IN  /\ initErr' = err
           /\ initState' = (IF err = "ok" THEN "resolved" ELSE "rejected")
           /\ index' = (IF err = "ok" THEN "listing" ELSE index)
           /\ last' = Failure("LoadDone", "/", "-", err, "-")
    /\ retry' = None
    /\ UNCHANGED <<variant, prefixUrl, nodeVars, netVars, ops, fetched,
                   lastWrite, emptied>>

\* ready(): returns once the initialization promise has settled.
Ready ==
    /\ ops < MaxOps
    /\ initState # "pending"
    /\ ops' = ops + 1
    /\ last' = Failure("ready", "/", "-", initErr, "-")
    /\ retry' = None
    /\ UNCHANGED <<initVars, nodeVars, netVars, fetched, lastWrite, emptied>>

\* ------------------------------------------------------------------- stat
\* stat(path, cred) up to its return or its suspension on the HEAD request.
Stat(p, acc) ==
    /\ ops < MaxOps
    /\ ops' = ops + 1
    /\ LET inode == getInode(index, p)
           fail(e) == /\ last' = Failure("stat", p, "-", e, initState)
                      /\ retry' = None
                      /\ UNCHANGED <<nodeVars, netVars>>
       IN  IF index = "undefined" THEN fail("TypeError")
           ELSE IF inode = "absent" THEN fail("ENOENT")
           ELSE IF ~acc THEN fail("EACCES")
           ELSE IF inode = "dir" THEN
                /\ last' = Result("stat", "stat", p, "-", "ok", None, None,
                                  None, "none", initState)
                /\ retry' = None
                /\ UNCHANGED <<nodeVars, netVars>>
           ELSE IF IsNegative(size[p]) THEN
                /\ pending' = [pending EXCEPT ![<<"HEAD", p>>] = @ + 1]
                /\ last' = Sent(Result("stat", "stat", p, "-", "pending",
                                       None, None, None, "HEAD", initState),
                                prefixUrl, p)
                /\ retry' = issuedNow(retry, <<"HEAD", p>>)
                /\ UNCHANGED nodeVars
           ELSE /\ last' = Result("stat", "stat", p, "-", "ok", None,
                                  Some(size[p]), None, "none", initState)
                /\ retry' = None
                /\ UNCHANGED <<nodeVars, netVars>>
    /\ UNCHANGED <<initVars, fetched, lastWrite, emptied>>

\* The HEAD request of a suspended stat completes: stats.size = await ...
HeadDone(f, resp) ==
    /\ pending[<<"HEAD", f>>] > 0
    /\ pending' = [pending EXCEPT ![<<"HEAD", f>>] = @ - 1]
    /\ IF fetchSizeErr(resp) # "ok" THEN
            /\ last' = Result("HeadDone", "stat", f, "-", fetchSizeErr(resp),
                              None, None, None, "none", "-")
            /\ retry' = failedNow(<<"HEAD", f>>)
            /\ UNCHANGED nodeVars
       ELSE /\ size' = [size EXCEPT ![f] = fetchSize(resp)]
            /\ last' = Result("HeadDone", "stat", f, "-", "ok", None,
                              Some(fetchSize(resp)), None, "none", "-")
            /\ retry' = completedNow(retry, <<"HEAD", f>>)
            /\ UNCHANGED fileData
    /\ UNCHANGED <<initVars, ops, fetched, lastWrite, emptied>>

\* ------------------------------------------------------- openFile/readFile
\* A variant of the checks that resolves the path before looking at the flag.
openFileErr_ResolveFirst(idx, p, flag, acc) ==
    IF idx = "undefined" THEN "TypeError"
    ELSE IF getInode(idx, p) = "absent" THEN "ENOENT"
    ELSE IF flag = "w" THEN "EPERM"
    ELSE IF ~acc THEN "EACCES"
    ELSE "ok"

\* The checks of openFile ahead of the cache: the error thrown, or "ok".
openFileErr(idx, p, flag, acc) ==
    IF flag = "w" THEN "EPERM"
    ELSE IF idx = "undefined" THEN "TypeError"
    ELSE IF getInode(idx, p) = "absent" THEN "ENOENT"
    ELSE IF ~acc THEN "EACCES"
    ELSE "ok"

\* Whether openFile reads the index: the write check comes first.
openFileGate(flag, init) == IF flag = "w" THEN "-" ELSE init

\* Variants of the cache test: one that never uses the cache, one that takes
\* an empty buffer for a missing one.
useCached_Never(data) == FALSE
useCached_NonEmpty(data) == data # None /\ Len(data[1]) > 0

\* if (stats.fileData): the cached contents are used when they are set.
useCached(data) == data # None

\* History: the first openFile on a file after an empty().
reopened(e) == IF e = "clean" THEN "reopened" ELSE "no"

\* openFile(path, flag, cred), and readFile through it (op says which), up
\* to its return or its suspension on the GET request.
OpenFile(op, p, flag, acc) ==
    /\ ops < MaxOps
    /\ ops' = ops + 1
    /\ LET err == openFileErr(index, p, flag, acc)
           gate == openFileGate(flag, initState)
       IN  IF err # "ok" THEN
                /\ last' = Failure(op, p, flag, err, gate)
                /\ retry' = None
                /\ UNCHANGED <<nodeVars, netVars, emptied>>
           ELSE IF getInode(index, p) = "dir" THEN
                /\ last' = Result(op, op, p, flag, "ok", None, None, None,
                                  "none", gate)
                /\ retry' = None
                /\ UNCHANGED <<nodeVars, netVars, emptied>>
           ELSE IF useCached(fileData[p]) THEN
                /\ last' = Result(op, op, p, flag, "ok", fileData[p],
                                  IF op = "openFile" THEN Some(size[p])
                                  ELSE None,
                                  None, "none", gate)
                /\ emptied' = [emptied EXCEPT ![p] = reopened(@)]
                /\ retry' = None
                /\ UNCHANGED <<nodeVars, netVars>>
           ELSE /\ pending' = [pending EXCEPT ![<<"GET", p>>] = @ + 1]
                /\ last' = Sent(Result(op, op, p, flag, "pending", None,
                                       None, None, "GET", gate),
                                prefixUrl, p)
                /\ emptied' = [emptied EXCEPT ![p] = reopened(@)]
                /\ retry' = issuedNow(retry, <<"GET", p>>)
                /\ UNCHANGED nodeVars
    /\ UNCHANGED <<initVars, fetched, lastWrite>>

\* History: a write of the cache and who made it.
Written(by, bytes) == Some([by |-> by, bytes |-> bytes])
WrittenBy(w, by) == w # None /\ w[1].by = by

\* History: the cache of a file is written while an empty() is the latest
\* thing that happened to it.
rewritten(e) == IF e = "clean" THEN "dirty" ELSE e

\* Variants of the two assignments: one that leaves the size alone, one that
\* keeps contents that are already set.
adoptSize_Stale(sz, f, body) == sz
adoptData_FirstWins(data, f, body) ==
    IF data[f] = None THEN [data EXCEPT ![f] = Some(body)] ELSE data

\* A variant of the size assignment that never lowers a size.
adoptSize_Longest(sz, f, body) ==
    [sz EXCEPT ![f] = IF @ > Len(body) THEN @ ELSE Len(body)]

\* A variant of the contents assignment that keeps preloaded contents.
adoptData_KeepPreloaded(data, f, body) ==
    IF WrittenBy(lastWrite[f], "preloadFile") THEN data
    ELSE [data EXCEPT ![f] = Some(body)]

\* stats.size = data.length; stats.fileData = data.
adoptSize(sz, f, body) == [sz EXCEPT ![f] = Len(body)]
adoptData(data, f, body) == [data EXCEPT ![f] = Some(body)]

\* The GET request of a suspended openFile completes: the body is adopted
\* and the handle goes back to openFile's caller (readFile hands its buffer
\* on).
GetDone(f, resp) ==
    /\ pending[<<"GET", f>>] > 0
    /\ pending' = [pending EXCEPT ![<<"GET", f>>] = @ - 1]
    /\ IF fetchFileErr(resp) # "ok" THEN
            /\ last' = Result("GetDone", "openFile", f, "r",
                              fetchFileErr(resp), None, None, None, "none",
                              "-")
            /\ retry' = failedNow(<<"GET", f>>)
            /\ UNCHANGED <<nodeVars, fetched, lastWrite, emptied>>
       ELSE /\ size' = adoptSize(size, f, resp.body)
            /\ fileData' = adoptData(fileData, f, resp.body)
            /\ last' = Result("GetDone", "openFile", f, "r", "ok",
                              Some(resp.body), Some(Len(resp.body)),
                              Some(resp.body), "none", "-")
            /\ fetched' = [fetched EXCEPT ![f] = @ \cup {resp.body}]
            /\ lastWrite' = [lastWrite EXCEPT
                                ![f] = Written("GET", resp.body)]
            /\ emptied' = [emptied EXCEPT
                              ![f] = rewritten(@)]
            /\ retry' = completedNow(retry, <<"GET", f>>)
    /\ UNCHANGED <<initVars, ops>>

\* ------------------------------------------------------ preloadFile/empty
\* The checks of preloadFile: the error thrown, or "ok".  The file check
\* comes before the check for a missing node: browserfs asks
\* isIndexFileInode(inode), zenfs calls inode.isFile() on the lookup result.
preloadFileErr(v, idx, p) ==
    IF idx = "undefined" THEN "TypeError"
    ELSE IF getInode(idx, p) = "absent" THEN
         (IF v = "browserfs" THEN "EISDIR" ELSE "TypeError")
    ELSE IF getInode(idx, p) # "file" THEN "EISDIR"
    ELSE "ok"

\* preloadFile(path, buffer).
PreloadFile(p, buffer) ==
    /\ ops < MaxOps
    /\ ops' = ops + 1
    /\ LET err == preloadFileErr(variant, index, p)
       IN  IF err # "ok" THEN
                /\ last' = Result("preloadFile", "preloadFile", p, "-", err,
                                  None, None, Some(buffer), "none", initState)
                /\ UNCHANGED <<nodeVars, lastWrite, emptied>>
           ELSE /\ size' = adoptSize(size, p, buffer)
                /\ fileData' = adoptData(fileData, p, buffer)
                /\ last' = Result("preloadFile", "preloadFile", p, "-", "ok",
                                  None, None, Some(buffer), "none", initState)
                /\ lastWrite' = [lastWrite EXCEPT
                                    ![p] = Written("preloadFile", buffer)]
                /\ emptied' = [emptied EXCEPT
                                  ![p] = rewritten(@)]
    /\ retry' = None
    /\ UNCHANGED <<initVars, netVars, fetched>>

\* The files empty() walks: this._index.files().
indexFiles(idx) == {f \in Files : getInode(idx, f) = "file"}

\* A variant of empty() that does not descend into directories.
emptyData_TopLevel(idx, data) ==
    [f \in Files |-> IF f \in indexFiles(idx) /\ f = "/a.txt" THEN None
                     ELSE data[f]]

\* The contents after empty(): file.data.fileData = null for every file.
emptyData(idx, data) ==
    [f \in Files |-> IF f \in indexFiles(idx) THEN None ELSE data[f]]

\* empty().
Empty ==
    /\ ops < MaxOps
    /\ ops' = ops + 1
    /\ IF index = "undefined" THEN
            /\ last' = Failure("empty", "/", "-", "TypeError", initState)
            /\ UNCHANGED <<fileData, fetched, lastWrite, emptied>>
       ELSE /\ fileData' = emptyData(index, fileData)
            /\ last' = Failure("empty", "/", "-", "ok", initState)
            /\ fetched' = [f \in Files |-> {}]
            /\ lastWrite' = [f \in Files |-> None]
            /\ emptied' = [f \in Files |->
                              IF fileData[f] # None THEN "clean"
                              ELSE IF emptied[f] = "clean" THEN "clean"
                              ELSE "no"]
    /\ retry' = None
    /\ UNCHANGED <<initVars, size, netVars>>

Next ==
    \/ \E resp \in IndexResponses : LoadDone(resp)
    \/ Ready
    \/ \E p \in Paths, acc \in BOOLEAN : Stat(p, acc)
    \/ \E f \in Files, resp \in HeadResponses : HeadDone(f, resp)
    \/ \E op \in {"openFile", "readFile"}, p \in Paths, flag \in {"r", "w"},
          acc \in BOOLEAN : OpenFile(op, p, flag, acc)
    \/ \E f \in Files, resp \in GetResponses : GetDone(f, resp)
    \/ \E p \in Paths, buffer \in Bodies : PreloadFile(p, buffer)
    \/ Empty

Spec == Init /\ [][Next]_vars

\* The calls that send requests, for every value of baseUrl.
InitUrl == Construct(BaseUrls)

NextUrl ==
    \/ \E p \in Paths, acc \in BOOLEAN : Stat(p, acc)
    \/ \E op \in {"openFile", "readFile"}, p \in Paths, flag \in {"r", "w"},
          acc \in BOOLEAN : OpenFile(op, p, flag, acc)

SpecUrl == InitUrl /\ [][NextUrl]_vars

\* ================================================================= claims
\* A step that is a call of openFile, directly or through readFile.
IsOpenCall(r) == r.act \in {"openFile", "readFile"}
\* An openFile call on a file node that got as far as the cache.
IsFileOpen(r) ==
    IsOpenCall(r) /\ r.path \in Files /\ r.err \in {"ok", "pending"}
\* A GET completion that handed a handle back.
IsGetOk(r) == r.act = "GetDone" /\ r.err = "ok"

\* C1 (as claimed): no operation reads the index while the initialization
\* started by the constructor is still pending.
C1_ReadinessGate == last.gate # "pending"

\* C2 (as claimed): an openFile whose GET succeeds returns the GET's body,
\* and any later openFile on the path, with no empty() in between, returns
\* those same bytes and issues no GET.
C2_LaterOpenSameBytes ==
    /\ IsGetOk(last) =>
          last.data = last.body /\ fileData[last.path] = last.body
    /\ IsFileOpen(last) /\ fetched[last.path] # {} =>
          /\ last.net = "none"
          /\ \A b \in fetched[last.path] : last.data = Some(b)

\* C2 (amended): an openFile whose GET succeeds returns the GET's body; any
\* later openFile on the path with no empty() in between issues no GET, and
\* it returns those same bytes when, in between, no preloadFile wrote the
\* path and no other GET for the path completed.
C2_OpenRoundTrip ==
    /\ IsGetOk(last) =>
          last.data = last.body /\ fileData[last.path] = last.body
    /\ IsFileOpen(last) /\ fetched[last.path] # {} =>
          /\ last.net = "none"
          /\ last.err = "ok"
    /\ IsFileOpen(last) /\ WrittenBy(lastWrite[last.path], "GET") =>
          last.data = Some(lastWrite[last.path][1].bytes)

\* C2: an openFile answered from the bytes a GET put in the cache.
C2_Witness ==
    /\ IsFileOpen(last)
    /\ last.err = "ok"
    /\ WrittenBy(lastWrite[last.path], "GET")
    /\ last.data = Some(lastWrite[last.path][1].bytes)

\* C3 (as claimed): a stat right after the successful HEAD of a first stat
\* on the same file issues no HEAD and returns the size the first resolved.
C3_StatIdempotent ==
    [][(/\ last.act = "HeadDone"
        /\ last.err = "ok"
        /\ last'.act = "stat"
        /\ last'.path = last.path
        /\ last'.err # "EACCES")
       => (/\ last'.net = "none"
           /\ last'.err = "ok"
           /\ last'.size = last.size)]_vars

\* C4 (as claimed): a file whose cachedBytes is set has size -1 or the
\* length of cachedBytes.
C4_SizeMatchesContent ==
    \A f \in Files :
        fileData[f] # None =>
            size[f] = UnknownSize \/ size[f] = Len(fileData[f][1])

\* C5 (as claimed): cachedBytes that is set changes only in a preloadFile
\* or an empty() step.
C5_OnlyPreloadOrEmpty ==
    [][\A f \in Files :
          fileData[f] # None /\ fileData'[f] # fileData[f] =>
              last'.act \in {"preloadFile", "empty"}]_vars

\* C5 (amended): cachedBytes that is set changes only by being replaced
\* whole: cleared by empty(), replaced by preloadFile's buffer, or replaced
\* by the body of a GET that completes; and a GET is only ever issued by an
\* openFile that found cachedBytes absent.
C5_ReplacedWholesale ==
    [][/\ \A f \in Files :
            fileData[f] # None /\ fileData'[f] # fileData[f] =>
                \/ last'.act = "empty" /\ fileData'[f] = None
                \/ /\ last'.act = "preloadFile"
                   /\ last'.path = f
                   /\ fileData'[f] = last'.body
                \/ /\ IsGetOk(last')
                   /\ last'.path = f
                   /\ fileData'[f] = last'.body
       /\ last'.net = "GET" /\ pending' # pending =>
            IsFileOpen(last') /\ fileData[last'.path] = None]_vars

\* C5: a GET completion has replaced bytes that an earlier GET had set.
C5_Witness ==
    /\ IsGetOk(last)
    /\ Cardinality(fetched[last.path]) >= 2

\* C6: every openFile that finds cachedBytes absent issues its own GET,
\* whatever is already in flight; every successful completion writes its
\* body and length into the node, so the last completion wins.
C6_ConcurrentOpens ==
    /\ IsFileOpen(last) /\ fileData[last.path] = None =>
          /\ last.net = "GET"
          /\ last.err = "pending"
          /\ pending[<<"GET", last.path>>] >= 1
    /\ IsGetOk(last) =>
          /\ fileData[last.path] = last.body
          /\ size[last.path] = Len(last.body[1])
          /\ WrittenBy(lastWrite[last.path], "GET")

\* C6: two GETs for one file were in flight together and both completed;
\* the node holds the body of the one that completed last.
C6_Witness ==
    /\ IsGetOk(last)
    /\ Cardinality(fetched[last.path]) = 2
    /\ pending[<<"GET", last.path>>] = 0
    /\ fileData[last.path] = last.body
    /\ emptied[last.path] = "no"

\* C7: openFile with a write flag fails with EPERM for every path, without
\* reading the index, issuing a request or changing a node.
C7_WriteNotPermitted ==
    [][IsOpenCall(last') /\ last'.flag = "w" =>
          /\ last'.err = "EPERM"
          /\ last'.net = "none"
          /\ last'.gate = "-"
          /\ UNCHANGED <<size, fileData, pending, index>>]_vars

\* C7: a write-mode openFile on a path that does not exist.
C7_Witness ==
    /\ last.act = "openFile"
    /\ last.flag = "w"
    /\ last.path = "/nope"
    /\ last.err = "EPERM"

\* C8: preloadFile on a file node sets cachedBytes to the buffer and size to
\* its length and issues no request; an openFile on the path after it, with
\* no other write of the cache and no empty() in between, returns the
\* buffer and issues no request.
C8_PreloadThenOpen ==
    /\ last.act = "preloadFile" /\ last.err = "ok" =>
          /\ fileData[last.path] = last.body
          /\ size[last.path] = Len(last.body[1])
          /\ last.net = "none"
    /\ IsFileOpen(last) /\ WrittenBy(lastWrite[last.path], "preloadFile") =>
          /\ last.err = "ok"
          /\ last.data = Some(lastWrite[last.path][1].bytes)
          /\ last.net = "none"

\* C8: an openFile answered from the bytes preloadFile put in the cache.
C8_Witness ==
    /\ last.act = "openFile"
    /\ last.path \in Files
    /\ last.err = "ok"
    /\ WrittenBy(lastWrite[last.path], "preloadFile")
    /\ last.data = Some(lastWrite[last.path][1].bytes)
    /\ pending[<<"GET", last.path>>] = 0

\* An openFile call step on file f.
OpenStepOn(f) == IsFileOpen(last') /\ last'.path = f

\* C9 (as claimed): empty() clears cachedBytes of every file; the next
\* openFile on a file that was cached before it issues exactly one GET.
C9_NextOpenRefetches ==
    [][/\ last'.act = "empty" /\ last'.err = "ok" =>
            \A f \in Files : fileData'[f] = None
       /\ \A f \in Files :
            emptied[f] \in {"clean", "dirty"} /\ OpenStepOn(f) =>
                /\ last'.net = "GET"
                /\ pending'[<<"GET", f>>] = pending[<<"GET", f>>] + 1]_vars

\* C9 (amended): empty() clears cachedBytes of every file; the next openFile
\* on a file that was cached before it issues exactly one GET, provided no
\* GET completion and no preloadFile has written the file in between; and
\* once a GET for the file has completed successfully an openFile after it
\* issues none.
C9_EmptyThenOpen ==
    /\ last.act = "empty" /\ last.err = "ok" =>
          \A f \in Files : fileData[f] = None
    /\ IsFileOpen(last) /\ emptied[last.path] = "reopened" =>
          /\ last.net = "GET"
          /\ last.err = "pending"
          /\ pending[<<"GET", last.path>>] >= 1
    /\ IsFileOpen(last) /\ fetched[last.path] # {} =>
          /\ last.net = "none"
          /\ last.err = "ok"

\* C9: the first openFile after an empty() of a cached file has issued a GET.
C9_Witness ==
    /\ IsFileOpen(last)
    /\ last.net = "GET"
    /\ emptied[last.path] = "reopened"

\* C10 (as claimed): preloadFile fails with EISDIR on a directory and with
\* ENOENT on a path that resolves to no node, and changes no node.
C10_PreloadErrors ==
    [][last'.act = "preloadFile" /\ index # "undefined" =>
          /\ getInode(index, last'.path) = "dir" =>
                last'.err = "EISDIR" /\ UNCHANGED <<size, fileData>>
          /\ getInode(index, last'.path) = "absent" =>
                last'.err = "ENOENT" /\ UNCHANGED <<size, fileData>>]_vars

\* A response that is a network failure: the transport threw, or the status
\* is not a success status.
IsFailure(resp) == resp.thrown \/ ~resp.ok
\* The completion steps of a request that failed, one step before.
GetFailedOn(f) == last.act = "GetDone" /\ last.err = "EIO" /\ last.path = f
HeadFailedOn(f) == last.act = "HeadDone" /\ last.err = "EIO" /\ last.path = f
\* A stat call step on file f that got as far as the size.
StatStepOn(f) ==
    last'.act = "stat" /\ last'.path = f /\ last'.err \in {"ok", "pending"}

\* C11 (as claimed): a GET or HEAD that throws or returns a non-success
\* status fails the operation with EIO and leaves size and cachedBytes as
\* they were; a later openFile (after a failed GET) or stat (after a failed
\* HEAD) on the path issues a fresh request.
C11_FreshRequestAfterFailure ==
    [][/\ \A f \in Files :
            /\ \A resp \in GetResponses :
                  IsFailure(resp) /\ GetDone(f, resp) =>
                      last'.err = "EIO" /\ UNCHANGED <<size, fileData>>
            /\ \A resp \in HeadResponses :
                  IsFailure(resp) /\ HeadDone(f, resp) =>
                      last'.err = "EIO" /\ UNCHANGED <<size, fileData>>
       /\ \A f \in Files :
            /\ GetFailedOn(f) /\ OpenStepOn(f) => last'.net = "GET"
            /\ HeadFailedOn(f) /\ StatStepOn(f) => last'.net = "HEAD"]_vars

\* C11 (amended): a GET or HEAD that throws or returns a non-success status
\* fails the operation with EIO and leaves size and cachedBytes as they
\* were; a later openFile on the path issues a fresh GET when cachedBytes is
\* still absent, and a later stat issues a fresh HEAD when size is still -1.
C11_FailureNotCached ==
    [][/\ \A f \in Files :
            /\ \A resp \in GetResponses :
                  IsFailure(resp) /\ GetDone(f, resp) =>
                      last'.err = "EIO" /\ UNCHANGED <<size, fileData>>
            /\ \A resp \in HeadResponses :
                  IsFailure(resp) /\ HeadDone(f, resp) =>
                      last'.err = "EIO" /\ UNCHANGED <<size, fileData>>
       /\ \A f \in Files :
            /\ GetFailedOn(f) /\ OpenStepOn(f) /\ fileData[f] = None =>
                  /\ last'.net = "GET"
                  /\ pending'[<<"GET", f>>] = pending[<<"GET", f>>] + 1
            /\ HeadFailedOn(f) /\ StatStepOn(f) /\ size[f] = UnknownSize =>
                  /\ last'.net = "HEAD"
                  /\ pending'[<<"HEAD", f>>] = pending[<<"HEAD", f>>] + 1
       ]_vars

\* C11: the GET of an openFile failed, the next openFile on the path issued
\* a GET again, and that one succeeded and filled the cache.
C11_Witness ==
    /\ IsGetOk(last)
    /\ retry = Retry(<<"GET", last.path>>, "completed")
    /\ pending[<<"GET", last.path>>] = 0
    /\ fileData[last.path] = last.body

\* C12 (as claimed): when the listing fetch throws, returns a non-success
\* status or a body that is not a valid listing, initialization fails with
\* EINVAL, the index is not populated from the response, and ready()
\* rejects with that error.
C12_InitFailure ==
    [][/\ \A resp \in IndexResponses :
            (resp.thrown \/ ~resp.ok \/ resp.json = "invalid")
            /\ LoadDone(resp) =>
                /\ initState' = "rejected"
                /\ initErr' = "EINVAL"
                /\ index' = index
       /\ last'.act = "ready" /\ initState = "rejected" =>
            last'.err = "EINVAL"]_vars

\* A header value that is a decimal number throughout.
AllDigits(s) == s # <<>> /\ \A i \in 1..Len(s) : IsDigit(s[i])
\* The size C13 describes for a successful HEAD response.
ProbedSize(resp) ==
    IF resp.header # None /\ AllDigits(resp.header[1])
    THEN DigitsValue(0, resp.header[1])
    ELSE UnknownSize

\* C13 (as claimed): for a successful HEAD response, stat adopts the
\* Content-Length value when the header is present and is an integer, and
\* -1 when the header is absent or its value is unparsable.
C13_SizeProbe ==
    [][\A f \in Files, resp \in HeadResponses :
          ~IsFailure(resp) /\ HeadDone(f, resp) =>
              /\ last'.err = "ok"
              /\ size'[f] = ProbedSize(resp)
              /\ last'.size = Some(ProbedSize(resp))]_vars

\* The requests of one kind in flight.
InFlight(pend, method) == [f \in Files |-> pend[<<method, f>>]]

C15_MonotonicSize ==
    [][\A f \in Files :
          size[f] >= 0 => size'[f] # UnknownSize]_vars

\* C16 (as claimed): empty() changes nothing but cachedBytes of file nodes;
\* a stat right after it on a file that was cached when it ran returns the
\* size the file had then, which is a known size, and issues no HEAD.
C16_EmptyFrame ==
    [][/\ last'.act = "empty" =>
            UNCHANGED <<size, pending, variant, initState, initErr, index,
                        prefixUrl>>
       /\ \A f \in Files :
            /\ last.act = "empty"
            /\ emptied[f] = "clean"
            /\ StatStepOn(f)
            => /\ last'.net = "none"
               /\ last'.err = "ok"
               /\ last'.size = Some(size[f])
               /\ size'[f] = size[f]]_vars

\* C17: when the GET of a read-mode openFile on a file node succeeds, the
\* node's size becomes the length of the response body whatever it was
\* before; a readFile on the path right after returns the same bytes, and
\* a stat right after reports that length and issues no HEAD.
C17_OpenResolvesSize ==
    [][/\ \A f \in Files, resp \in GetResponses :
            ~IsFailure(resp) /\ GetDone(f, resp) =>
                /\ size'[f] = Len(resp.body)
                /\ fileData'[f] = Some(resp.body)
                /\ last'.err = "ok"
                /\ last'.data = Some(resp.body)
                /\ last'.size = Some(Len(resp.body))
       /\ \A f \in Files :
            IsGetOk(last) /\ last.path = f =>
                /\ last'.act = "readFile" /\ OpenStepOn(f) =>
                      /\ last'.err = "ok"
                      /\ last'.data = last.body
                      /\ last'.net = "none"
                /\ StatStepOn(f) =>
                      /\ last'.err = "ok"
                      /\ last'.size = Some(Len(last.body[1]))
                      /\ last'.net = "none"
                      /\ pending' = pending]_vars

\* C17: a stat has reported, without a HEAD in flight, the length of the
\* bytes that the GET of an openFile put in the cache.
C17_Witness ==
    /\ last.act = "stat"
    /\ last.path \in Files
    /\ last.err = "ok"
    /\ WrittenBy(lastWrite[last.path], "GET")
    /\ fileData[last.path] = Some(lastWrite[last.path][1].bytes)
    /\ last.size = Some(Len(lastWrite[last.path][1].bytes))
    /\ pending[<<"HEAD", last.path>>] = 0

\* The text of a path with one leading separator cut off.
Stripped(p) ==
    IF Head(PathText(p)) = "/" THEN Tail(PathText(p)) ELSE PathText(p)

\* C18 (as claimed): for every baseUrl the stored prefixUrl ends with a
\* separator, and every GET and HEAD for a path is sent to prefixUrl
\* followed by the path with one leading separator cut off.
C18_RequestUrl ==
    /\ prefixUrl # <<>>
    /\ prefixUrl[Len(prefixUrl)] = "/"
    /\ last.net # "none" => last.url = Some(prefixUrl \o Stripped(last.path))

\* The state the constructor returns in when index is an inline listing:
\* nothing has happened yet and initialization is not pending.
InlineConstructed == last.act = "new" /\ initState = "resolved"

\* C19: when index is an inline listing, the index is fully built when the
\* constructor returns and no request has been issued for it; ready()
\* resolves, and the operation invoked right after construction resolves
\* its path in the populated index.
C19_InlineListing ==
    [][InlineConstructed =>
          /\ index = "listing"
          /\ initErr = "ok"
          /\ \A r \in Requests : pending[r] = 0
          /\ last'.act # "LoadDone"
          /\ last'.gate \in {"-", "resolved"}
          /\ index' = "listing"
          /\ last'.act = "ready" => last'.err = "ok"
          /\ last'.act \in {"stat", "openFile", "readFile", "preloadFile"}
             /\ last'.flag # "w" =>
                /\ last'.path \in Files \cup Dirs =>
                      last'.err \notin {"ENOENT", "TypeError"}
                /\ last'.path \in Files /\ last'.act # "preloadFile" =>
                      last'.err \in {"pending", "EACCES"}
                /\ last'.path \in Files /\ last'.act = "preloadFile" =>
                      last'.err = "ok" /\ fileData'[last'.path] = last'.body
          /\ last'.act = "empty" => last'.err = "ok"]_vars

\* C19: the first operation on a filesystem built from an inline listing, a
\* stat of a file of the listing, found the file and issued its HEAD.
C19_Witness ==
    /\ ops = 1
    /\ last.act = "stat"
    /\ last.path = "/dir/b.txt"
    /\ last.gate = "resolved"
    /\ last.net = "HEAD"
    /\ index = "listing"

\* C20: empty() and preloadFile leave the requests in flight alone, and a
\* GET issued before them still writes its body and length into the node
\* when it completes: a node cleared by empty() becomes cached again with
\* no new openFile, and bytes written by preloadFile are replaced by the
\* body of the earlier GET.
C20_NoCancellation ==
    [][/\ last'.act \in {"empty", "preloadFile"} => pending' = pending
       /\ \A f \in Files, resp \in GetResponses :
            ~IsFailure(resp) /\ GetDone(f, resp) =>
                /\ emptied[f] = "clean" =>
                      /\ fileData[f] = None
                      /\ fileData'[f] = Some(resp.body)
                      /\ size'[f] = Len(resp.body)
                /\ WrittenBy(lastWrite[f], "preloadFile") =>
                      /\ fileData[f] = Some(lastWrite[f][1].bytes)
                      /\ fileData'[f] = Some(resp.body)
                      /\ size'[f] = Len(resp.body)]_vars

\* C20: a GET that was in flight when empty() cleared the cache has
\* completed and cached the file again, with no openFile since the empty().
C20_Witness ==
    /\ IsGetOk(last)
    /\ emptied[last.path] = "dirty"
    /\ WrittenBy(lastWrite[last.path], "GET")
    /\ fetched[last.path] = {last.body[1]}
    /\ fileData[last.path] = last.body
====
